---- MODULE Spec2Model ----
(***************************************************************************)
(* The cmanta extension module (cmanta.cpp): a pybind11 binding of the     *)
(* Vimba SDK's VimbaSystem singleton.  The module registers one class,     *)
(* VimbaSystem, held by std::unique_ptr<VimbaSystem, py::nodelete>, with   *)
(* two methods bound by plain .def(): GetInstance and GetCameras.          *)
(*                                                                         *)
(* What the file itself fixes, and what this model translates:             *)
(*   line 15  only <pybind11/pybind11.h> is included: no STL casters;      *)
(*   line 24  the holder type and its deleter (py::nodelete), no py::init; *)
(*   line 25  GetInstance bound with .def (not .def_static), with no       *)
(*            return_value_policy argument and no call_guard;              *)
(*   line 26  GetCameras bound with .def, no policy, no call_guard.        *)
(* The SDK (VimbaCPP.h, line 16) is outside the repository.  The parts of  *)
(* it the binding's behaviour depends on are environment: the declared     *)
(* return form of VimbaSystem::GetInstance (sdkDecl) and the C++ types     *)
(* that other loaded extension modules have registered (extTypes) are      *)
(* chosen in Init and never change.  The shipped Vimba header declares     *)
(* "static VimbaSystem& GetInstance()", i.e. sdkDecl = "lvalue_ref".       *)
(***************************************************************************)
EXTENDS Naturals, FiniteSets, TLC

\* ------------------------------------------------------------------ bounds
MaxCams == 1
MaxHandles == 2

Cams == 1..MaxCams
HandleIds == 1..MaxHandles
Callers == {"t1", "t2"}
\* A Python object that is no VimbaSystem wrapper.
NotAHandle == MaxHandles + 1

VARIABLES
    sdkDecl,       \* declared return form of VimbaSystem::GetInstance
    extTypes,      \* SDK types registered with pybind11 by other modules
    started,       \* SDK: Startup() done and Shutdown() not yet
    connected,     \* device environment: cameras on the bus
    camOpen,       \* SDK: cameras currently open
    objects,       \* VimbaSystem C++ objects that exist
    deleted,       \* objects the binding ran a deleter on
    live,          \* Python wrapper instances that exist
    hptr,          \* wrapper -> the C++ object it points at
    howned,        \* wrapper -> pybind11's instance->owned flag
    held,          \* caller -> wrappers it holds a reference to
    registered_instances,  \* pybind11 internals: <<C++ object, wrapper>>
    gil,           \* the interpreter lock: "free" or the caller holding it
    pc,            \* caller -> "idle" | "GetInstance" | "GetCameras"
    callSelf,      \* caller -> the wrapper its running GetCameras acts on
    result,        \* caller -> what its last exposed call gave it
    sdkView        \* caller -> what the SDK's own function gave there

vars == <<sdkDecl, extTypes, started, connected, camOpen, objects, deleted,
          live, hptr, howned, held, registered_instances, gil, pc, callSelf,
          result, sdkView>>

envVars == <<sdkDecl, extTypes>>
sdkVars == <<started, connected, camOpen>>
objVars == <<objects, deleted>>
pyVars == <<live, hptr, howned, held, registered_instances>>

\* ------------------------------------------------------------- the SDK side
\* VimbaSystem::_instance, the object VimbaSystem::GetInstance refers to.
Singleton == 0

\* What VimbaSystem::GetInstance yields: the singleton, in every state.
SdkGetInstance == Singleton

\* What VimbaSystem::GetCameras(cameras) yields: an error code and, on
\* success, the cameras on the bus written into the caller's vector.
SdkGetCameras ==
    IF started
    THEN [code |-> "VmbErrorSuccess", cams |-> connected]
    ELSE [code |-> "VmbErrorApiNotStarted", cams |-> {}]

\* std::is_copy_constructible<VimbaSystem>: the singleton's copy
\* constructor is private.
IsCopyConstructible == FALSE

\* ------------------------------------------------------------ result values
Res(op, kind, obj, code, cams) ==
    [op |-> op, kind |-> kind, obj |-> obj, code |-> code, cams |-> cams]

NoResult == Res("none", "none", {}, "none", {})

View(called, kind, obj, code, cams) ==
    [called |-> called, kind |-> kind, obj |-> obj, code |-> code,
     cams |-> cams]

\* What the SDK's GetInstance produced for a call that entered it.
GetInstanceView ==
    View(TRUE, "object", {SdkGetInstance}, "none", {})

\* What the SDK's GetCameras produced for a call that entered it, made on
\* the VimbaSystem objects in on.
GetCamerasView(on) ==
    View(TRUE, "code", on, SdkGetCameras.code, SdkGetCameras.cams)

\* A call the dispatcher turned away: the SDK's function did not run.
NotCalledView(on) == View(FALSE, "none", on, "none", {})

\* ------------------------------------------------------- the binding's rules
\* The set of objects the holder's destructor deletes when it lets go of
\* pointer p.  std::unique_ptr<VimbaSystem> (std::default_delete) would
\* delete p; py::nodelete's operator() does nothing.
HolderWithDefaultDelete(p) == {p}

HolderDeleter(p) == {}

\* Whether the calling thread keeps the interpreter lock while the bound
\* function runs.  With py::call_guard<py::gil_scoped_release> it would
\* not; neither .def has a call_guard.
GilReleasedAroundCall == FALSE

GilHeldAcrossCall == TRUE

\* The names the class defines: the two .def calls, no py::init.  A third
\* .def("Startup", ...) would add a name.
ExposedMethodsWithStartup == {"GetInstance", "GetCameras", "Startup"}

ExposedMethods == {"GetInstance", "GetCameras"}

\* pybind11's registered C++ types: this module registers VimbaSystem only.
TypeRegistered(t) == t = "VimbaSystem" \/ t \in extTypes

\* return_value_policy::automatic, the default of .def: take_ownership for
\* a returned pointer, copy for a returned lvalue reference.
ReturnValuePolicy(decl) ==
    IF decl = "pointer" THEN "take_ownership" ELSE "copy"

\* GetInstance is a static member function bound with .def: the bound
\* callable takes no argument, so a call through an instance (which passes
\* the instance as first argument) matches no overload.
GetInstanceAccepts(via) == via = "class"

\* References that keep wrapper h alive: callers holding it and calls
\* running on it.
Holders(h) == {c \in Callers : h \in held[c] \/ h \in callSelf[c]}

\* The registry after wrapper h is deallocated: its entry is removed.  A
\* binding that kept the entry would remember the object after the caller
\* let go of it.
DeregisterSkipped(reg, h) == reg

Deregister(reg, h) == {e \in reg : e[2] # h}

FreshHandle == CHOOSE h \in HandleIds \ live :
                   \A g \in HandleIds \ live : h <= g

FreshObject == CHOOSE o \in 1..(MaxHandles + 1) \ objects :
                   \A q \in (1..(MaxHandles + 1)) \ objects : o <= q

\* A Python-level step of caller c needs the interpreter lock.
CanRun(c) == pc[c] = "idle" /\ gil = "free"

\* ------------------------------------------------------------------- Init
Init ==
    /\ sdkDecl \in {"pointer", "lvalue_ref"}
    /\ extTypes \in SUBSET {"CameraPtrVector", "VmbErrorType"}
    /\ started = FALSE
    /\ connected = {}
    /\ camOpen = {}
    /\ objects = {Singleton}
    /\ deleted = {}
    /\ live = {}
    /\ hptr = [h \in HandleIds |-> Singleton]
    /\ howned = [h \in HandleIds |-> FALSE]
    /\ held = [c \in Callers |-> {}]
    /\ registered_instances = {}
    /\ gil = "free"
    /\ pc = [c \in Callers |-> "idle"]
    /\ callSelf = [c \in Callers |-> {}]
    /\ result = [c \in Callers |-> NoResult]
    /\ sdkView = [c \in Callers |-> NotCalledView({})]

\* ------------------------------------------- the SDK and the device, native
SdkStartup ==
    /\ ~started
    /\ started' = TRUE
    /\ UNCHANGED <<envVars, connected, camOpen, objVars, pyVars, gil, pc,
                   callSelf, result, sdkView>>

SdkShutdown ==
    /\ started
    /\ started' = FALSE
    /\ camOpen' = {}
    /\ UNCHANGED <<envVars, connected, objVars, pyVars, gil, pc, callSelf,
                   result, sdkView>>

CameraPlug(k) ==
    /\ k \notin connected
    /\ connected' = connected \cup {k}
    /\ UNCHANGED <<envVars, started, camOpen, objVars, pyVars, gil, pc,
                   callSelf, result, sdkView>>

CameraUnplug(k) ==
    /\ k \in connected
    /\ connected' = connected \ {k}
    /\ camOpen' = camOpen \ {k}
    /\ UNCHANGED <<envVars, started, objVars, pyVars, gil, pc, callSelf,
                   result, sdkView>>

CameraOpen(k) ==
    /\ started
    /\ k \in connected \ camOpen
    /\ camOpen' = camOpen \cup {k}
    /\ UNCHANGED <<envVars, started, connected, objVars, pyVars, gil, pc,
                   callSelf, result, sdkView>>

CameraClose(k) ==
    /\ k \in camOpen
    /\ camOpen' = camOpen \ {k}
    /\ UNCHANGED <<envVars, started, connected, objVars, pyVars, gil, pc,
                   callSelf, result, sdkView>>

\* ------------------------------------------------------ exposed GetInstance
\* h.GetInstance(): the dispatcher finds no overload taking one argument.
GetInstanceBadArgs(c, h) ==
    /\ CanRun(c)
    /\ h \in held[c]
    /\ ~GetInstanceAccepts("instance")
    /\ result' = [result EXCEPT
                    ![c] = Res("GetInstance", "TypeError", {}, "none", {})]
    /\ sdkView' = [sdkView EXCEPT ![c] = NotCalledView({})]
    /\ UNCHANGED <<envVars, sdkVars, objVars, pyVars, gil, pc, callSelf>>

\* VimbaSystem.GetInstance(): the dispatcher enters the bound function.
EnterGetInstance(c) ==
    /\ CanRun(c)
    /\ GetInstanceAccepts("class")
    /\ pc' = [pc EXCEPT ![c] = "GetInstance"]
    /\ gil' = IF GilHeldAcrossCall THEN c ELSE "free"
    /\ UNCHANGED <<envVars, sdkVars, objVars, pyVars, callSelf, result,
                   sdkView>>

\* type_caster_generic::cast on the returned object p, for the caller c:
\* an already registered live wrapper is handed out again; otherwise the
\* policy decides.  The outcome: "known", "wrap", "copy" or "cast_error".
CastOutcome(p) ==
    IF \E h \in live : <<p, h>> \in registered_instances THEN "known"
    ELSE IF ReturnValuePolicy(sdkDecl) = "take_ownership" THEN "wrap"
    ELSE IF IsCopyConstructible THEN "copy"
    ELSE "cast_error"

\* The SDK function has returned; pybind11 casts the return value.
ReturnGetInstance(c) ==
    /\ pc[c] = "GetInstance"
    /\ gil = (IF GilHeldAcrossCall THEN c ELSE "free")
    /\ LET p == SdkGetInstance
           out == CastOutcome(p)
           isNew == out \in {"wrap", "copy"}
           h == IF out = "known"
                THEN CHOOSE g \in live : <<p, g>> \in registered_instances
                ELSE FreshHandle
           o == IF out = "copy" THEN FreshObject ELSE p
       IN  /\ isNew => live # HandleIds
           /\ objects' = IF out = "copy" THEN objects \cup {o} ELSE objects
           /\ live' = IF isNew THEN live \cup {h} ELSE live
           /\ hptr' = IF isNew THEN [hptr EXCEPT ![h] = o] ELSE hptr
           /\ howned' = IF isNew THEN [howned EXCEPT ![h] = TRUE] ELSE howned
           /\ registered_instances' =
                  IF isNew THEN registered_instances \cup {<<o, h>>}
                  ELSE registered_instances
           /\ held' = IF out = "cast_error" THEN held
                      ELSE [held EXCEPT ![c] = @ \cup {h}]
           /\ result' = [result EXCEPT ![c] =
                  IF out = "cast_error"
                  THEN Res("GetInstance", "RuntimeError", {}, "none", {})
                  ELSE Res("GetInstance", "object", {o}, "none", {})]
    /\ sdkView' = [sdkView EXCEPT ![c] = GetInstanceView]
    /\ pc' = [pc EXCEPT ![c] = "idle"]
    /\ gil' = "free"
    /\ UNCHANGED <<envVars, sdkVars, deleted, callSelf>>

\* The caller drops its reference to wrapper h; the last reference gone,
\* the wrapper is deallocated: deregistered, and if pybind11 owns the value
\* the holder is destroyed, which runs the holder's deleter.
ReleaseHandle(c, h) ==
    /\ CanRun(c)
    /\ h \in held[c]
    /\ held' = [held EXCEPT ![c] = @ \ {h}]
    /\ LET last == Holders(h) = {c} /\ h \notin callSelf[c]
           gone == IF last /\ howned[h] THEN HolderDeleter(hptr[h]) ELSE {}
       IN  /\ live' = IF last THEN live \ {h} ELSE live
           /\ registered_instances' =
                  IF last THEN Deregister(registered_instances, h)
                  ELSE registered_instances
           /\ objects' = objects \ gone
           /\ deleted' = deleted \cup gone
    /\ UNCHANGED <<envVars, sdkVars, hptr, howned, gil, pc, callSelf, result,
                   sdkView>>

\* ------------------------------------------------------- exposed GetCameras
\* The argument loader: self must be a VimbaSystem wrapper, and the second
\* argument must convert to CameraPtrVector&, which only a wrapper instance
\* of a registered CameraPtrVector does.
ArgsLoad(c, self, arg) ==
    /\ self \in held[c]
    /\ arg = "vec"
    /\ TypeRegistered("CameraPtrVector")

\* What a caller can pass as the cameras argument: a Python list, or an
\* instance of CameraPtrVector where some module has registered that type.
ArgChoices ==
    {"pylist"} \cup (IF "CameraPtrVector" \in extTypes THEN {"vec"} ELSE {})

\* No overload matches: TypeError, the SDK is not called.
GetCamerasBadArgs(c, self, arg) ==
    /\ CanRun(c)
    /\ self \in held[c] \cup {NotAHandle}
    /\ arg \in ArgChoices
    /\ ~ArgsLoad(c, self, arg)
    /\ LET on == IF self \in held[c] THEN {hptr[self]} ELSE {}
       IN  /\ result' = [result EXCEPT ![c] =
                  Res("GetCameras", "TypeError", on, "none", {})]
           /\ sdkView' = [sdkView EXCEPT ![c] = NotCalledView(on)]
    /\ UNCHANGED <<envVars, sdkVars, objVars, pyVars, gil, pc, callSelf>>

EnterGetCameras(c, self, arg) ==
    /\ CanRun(c)
    /\ arg \in ArgChoices
    /\ ArgsLoad(c, self, arg)
    /\ pc' = [pc EXCEPT ![c] = "GetCameras"]
    /\ callSelf' = [callSelf EXCEPT ![c] = {self}]
    /\ gil' = IF GilHeldAcrossCall THEN c ELSE "free"
    /\ UNCHANGED <<envVars, sdkVars, objVars, pyVars, result, sdkView>>

\* The SDK function has filled the caller's vector and returned its
\* VmbErrorType; pybind11 casts it, which needs VmbErrorType registered.
ReturnGetCameras(c) ==
    /\ pc[c] = "GetCameras"
    /\ gil = (IF GilHeldAcrossCall THEN c ELSE "free")
    /\ LET r == SdkGetCameras
           on == {hptr[h] : h \in callSelf[c]}
       IN  /\ result' = [result EXCEPT ![c] =
                  IF TypeRegistered("VmbErrorType")
                  THEN Res("GetCameras", "code", on, r.code, r.cams)
                  ELSE Res("GetCameras", "TypeError", on, "none", r.cams)]
           /\ sdkView' = [sdkView EXCEPT ![c] = GetCamerasView(on)]
    /\ pc' = [pc EXCEPT ![c] = "idle"]
    /\ callSelf' = [callSelf EXCEPT ![c] = {}]
    /\ gil' = "free"
    /\ UNCHANGED <<envVars, sdkVars, objVars, pyVars>>

\* ------------------------------------------- anything else through the class
\* VimbaSystem() and VimbaSystem.<name>: only what the class defines can be
\* called; a name it does not define raises and reaches nothing in the SDK.
OtherNames == {"__init__", "Startup", "Shutdown"}

CallOther(c, m) ==
    /\ CanRun(c)
    /\ m \in OtherNames
    /\ LET bound == m \in ExposedMethods
       IN  /\ started' = IF bound /\ m = "Startup" THEN TRUE
                         ELSE IF bound /\ m = "Shutdown" THEN FALSE
                         ELSE started
           /\ camOpen' = IF bound /\ m = "Shutdown" THEN {} ELSE camOpen
           /\ objects' = IF bound /\ m = "__init__"
                         THEN objects \cup {FreshObject} ELSE objects
           /\ result' = [result EXCEPT ![c] =
                  IF bound THEN Res(m, "code", {}, "VmbErrorSuccess", {})
                  ELSE Res(m, IF m = "__init__" THEN "TypeError"
                              ELSE "AttributeError", {}, "none", {})]
    /\ sdkView' = [sdkView EXCEPT ![c] = NotCalledView({})]
    /\ UNCHANGED <<envVars, connected, deleted, pyVars, gil, pc, callSelf>>

\* ---------------------------------------------------------------- the system
SdkStep ==
    \/ SdkStartup
    \/ SdkShutdown
    \/ \E k \in Cams : CameraPlug(k)
    \/ \E k \in Cams : CameraUnplug(k)
    \/ \E k \in Cams : CameraOpen(k)
    \/ \E k \in Cams : CameraClose(k)

BindingStep ==
    \/ \E c \in Callers : \E h \in HandleIds : GetInstanceBadArgs(c, h)
    \/ \E c \in Callers : EnterGetInstance(c)
    \/ \E c \in Callers : ReturnGetInstance(c)
    \/ \E c \in Callers : \E h \in HandleIds : ReleaseHandle(c, h)
    \/ \E c \in Callers : \E s \in HandleIds \cup {NotAHandle} :
           \E a \in {"pylist", "vec"} : GetCamerasBadArgs(c, s, a)
    \/ \E c \in Callers : \E s \in HandleIds :
           \E a \in {"pylist", "vec"} : EnterGetCameras(c, s, a)
    \/ \E c \in Callers : ReturnGetCameras(c)
    \/ \E c \in Callers : \E m \in OtherNames : CallOther(c, m)

Next == SdkStep \/ BindingStep

Spec == Init /\ [][Next]_vars

\* ------------------------------------------------------------------- claims
NothingHeld == \A c \in Callers : held[c] = {} /\ callSelf[c] = {}

\* C1: whatever GetInstance calls and releases of caller-side handles have
\* happened, the release of the last handle included, the SDK singleton
\* still exists and the binding has run no deleter on it.
C1_SingletonNeverDestroyed ==
    Singleton \in objects /\ Singleton \notin deleted

\* C1's case: a caller was handed a wrapper that owns the singleton, every
\* wrapper has since been released and deallocated, and the singleton lives.
C1_LastHandleReleased ==
    /\ live = {}
    /\ \E c \in Callers : /\ result[c].op = "GetInstance"
                          /\ result[c].kind = "object"
                          /\ result[c].obj = {Singleton}
    /\ Singleton \in objects

\* C2: a caller holding no handle obtains the singleton by calling the
\* exposed GetInstance (a completed class-level call hands it a handle),
\* and can then call the exposed GetCameras on that handle (a GetCameras
\* call made on a handle stops short of the SDK's GetCameras only when the
\* caller passed a wrong argument although a right one exists).
C2_ObtainThenEnumerate ==
    /\ \A c \in Callers :
           (result[c].op = "GetInstance" /\ sdkView[c].called)
               => result[c].kind = "object"
    /\ \A c \in Callers :
           (result[c].op = "GetCameras" /\ result[c].obj # {}
               /\ ~sdkView[c].called)
               => "vec" \in ArgChoices

\* C3: what the caller receives from an exposed GetInstance or GetCameras
\* call that entered the SDK's function of that name equals what that
\* function produced: the same object, the same code, the same camera list.
C3_ResultIsSdkResult ==
    \A c \in Callers :
        (result[c].op \in {"GetInstance", "GetCameras"} /\ sdkView[c].called)
            => /\ result[c].kind = sdkView[c].kind
               /\ result[c].obj = sdkView[c].obj
               /\ result[c].code = sdkView[c].code
               /\ result[c].cams = sdkView[c].cams

C6_NoLockAcrossCall ==
    \A c \in Callers : pc[c] # "idle" => gil # c

\* C6 as amended: the binding takes no lock of its own and does not release
\* the interpreter lock either: a caller inside a forwarded SDK call holds
\* the interpreter lock, and no other caller is inside a call.
C6_InterpreterLockSerializes ==
    \A c \in Callers :
        pc[c] # "idle"
            => (gil = c /\ \A d \in Callers \ {c} : pc[d] = "idle")

\* C6's case: one caller is inside a forwarded SDK call and another, idle,
\* cannot start a call of its own.
C6_SecondCallerWaits ==
    \E c \in Callers : \E d \in Callers \ {c} :
        pc[c] # "idle" /\ pc[d] = "idle" /\ ~CanRun(d)

\* C7: every call of the exposed GetInstance yields a handle to the one
\* SDK singleton, not a copy: exactly one VimbaSystem exists and every
\* handle refers to it.
C7_EveryCallYieldsTheSingleton ==
    /\ Cardinality(objects) = 1
    /\ \A h \in live : hptr[h] = Singleton
    /\ \A c \in Callers :
           result[c].op = "GetInstance"
               => (result[c].kind = "object"
                   /\ result[c].obj = {Singleton})

\* C8: no operation through the class constructs a VimbaSystem, starts or
\* shuts down the SDK, or opens or closes a camera: every step of the
\* binding leaves started, camOpen and the set of VimbaSystem objects as
\* they were.
C8_ExposedOpsLeaveSdkState ==
    [][BindingStep => (/\ started' = started
                       /\ camOpen' = camOpen
                       /\ objects' = objects)]_vars

\* C8's case: a caller tried Shutdown and a caller tried the constructor
\* through the class, and the SDK is still started with a camera open and
\* one VimbaSystem.
C8_TriedShutdownAndConstruct ==
    /\ started
    /\ camOpen # {}
    /\ Cardinality(objects) = 1
    /\ \E c \in Callers : result[c].op = "Shutdown"
    /\ \E c \in Callers : result[c].op = "__init__"

====
